---------------------------- MODULE Spec2Model ----------------------------
(***************************************************************************)
(* Rule engine of the LIMBLinkAI backend (src/main.py): ischemia-grade     *)
(* refinement, WIfI stage estimation, infection grading, recommendation    *)
(* composition and the two endpoints that sequence them.                   *)
(*                                                                         *)
(* Floats are fixed-point hundredths: Dec(1, 30) is 1.30, Dec(39, 50) is   *)
(* 39.5.  An Optional[float] is the empty sequence (None) or a one-element *)
(* sequence.  A log entry is the f-string's template and its arguments.    *)
(***************************************************************************)
EXTENDS Integers, Sequences, FiniteSets, TLC

VARIABLES endpoint, pc, case, refined_I, stage, inf, recs, plan_flags,
          rationale, overall, response

vars == <<endpoint, pc, case, refined_I, stage, inf, recs, plan_flags,
          rationale, overall, response>>

\* How far the enumerated integer grades reach beyond the conventional 0..3.
Slack == 1

----------------------------------------------------------------------------
\* Values

None == <<>>

Some(v) == <<v>>

Val(o) == o[1]

Dec(whole, frac) == whole * 100 + frac

Note(fmt, args) == [fmt |-> fmt, args |-> args]

\* Python's max(a, b)
Max(a, b) == IF a >= b THEN a ELSE b

\* Python's `x or k` for an Optional[int] x: None and 0 are both falsy
OrElse(x, k) == IF x = None \/ x = Some(0) THEN k ELSE Val(x)

\* safe(v) with the default default=None
safe(v) == IF v # None THEN v ELSE None

----------------------------------------------------------------------------
\* refine_ischemia_grade

\* lines 57-67: the toe-pressure block; d is `derived` on entry
ToeBlock_Lt25(toe, d, notes) ==
    IF toe = None THEN [derived |-> d, notes |-> notes]
    ELSE IF Val(toe) < Dec(25, 0)
         THEN [derived |-> Some(Max(3, OrElse(d, 3))),
               notes |-> Append(notes, Note("Toe pressure {} mmHg -> Ischemia 3", <<Val(toe)>>))]
    ELSE IF Dec(25, 0) <= Val(toe) /\ Val(toe) <= Dec(39, 0)
         THEN [derived |-> Some(Max(2, OrElse(d, 2))),
               notes |-> Append(notes, Note("Toe pressure {} mmHg -> Ischemia 2", <<Val(toe)>>))]
    ELSE IF Val(toe) >= Dec(40, 0)
         THEN [derived |-> Some(Max(0, OrElse(d, 0))),
               notes |-> Append(notes, Note("Toe pressure {} mmHg -> Ischemia 0-1", <<Val(toe)>>))]
    ELSE [derived |-> d, notes |-> notes]

ToeBlock(toe, d, notes) ==
    IF toe = None THEN [derived |-> d, notes |-> notes]
    ELSE IF Val(toe) < Dec(30, 0)
         THEN [derived |-> Some(Max(3, OrElse(d, 3))),
               notes |-> Append(notes, Note("Toe pressure {} mmHg -> Ischemia 3", <<Val(toe)>>))]
    ELSE IF Dec(30, 0) <= Val(toe) /\ Val(toe) <= Dec(39, 0)
         THEN [derived |-> Some(Max(2, OrElse(d, 2))),
               notes |-> Append(notes, Note("Toe pressure {} mmHg -> Ischemia 2", <<Val(toe)>>))]
    ELSE IF Val(toe) >= Dec(40, 0)
         THEN [derived |-> Some(Max(0, OrElse(d, 0))),
               notes |-> Append(notes, Note("Toe pressure {} mmHg -> Ischemia 0-1", <<Val(toe)>>))]
    ELSE [derived |-> d, notes |-> notes]

\* lines 69-79: the TcPO2 block; d is `derived` on entry
TcBlock(tcpo2, d, notes) ==
    IF tcpo2 = None THEN [derived |-> d, notes |-> notes]
    ELSE IF Val(tcpo2) < Dec(20, 0)
         THEN [derived |-> Some(Max(3, OrElse(d, 3))),
               notes |-> Append(notes, Note("TcPO2 {} mmHg -> Ischemia 3", <<Val(tcpo2)>>))]
    ELSE IF Dec(20, 0) <= Val(tcpo2) /\ Val(tcpo2) <= Dec(29, 0)
         THEN [derived |-> Some(Max(2, OrElse(d, 2))),
               notes |-> Append(notes, Note("TcPO2 {} mmHg -> Ischemia 2", <<Val(tcpo2)>>))]
    ELSE IF Val(tcpo2) >= Dec(30, 0)
         THEN [derived |-> Some(Max(0, OrElse(d, 0))),
               notes |-> Append(notes, Note("TcPO2 {} mmHg -> Ischemia 0-1", <<Val(tcpo2)>>))]
    ELSE [derived |-> d, notes |-> notes]

\* lines 81-89: the choice between the derived grade and the user grade
Combine_AlwaysMax(user_grade, abi, derived, notes) ==
    IF abi # None /\ Val(abi) > Dec(1, 30)
    THEN [ret |-> IF derived # None THEN Max(user_grade, Val(derived)) ELSE user_grade,
          notes |-> Append(notes, Note("ABI {} (>1.30): likely noncompressible -> prefer toe/TcPO2", <<Val(abi)>>))]
    ELSE IF derived = None
         THEN [ret |-> user_grade, notes |-> notes]
    ELSE [ret |-> Max(user_grade, Val(derived)), notes |-> notes]

Combine(user_grade, abi, derived, notes) ==
    IF abi # None /\ Val(abi) > Dec(1, 30)
    THEN [ret |-> IF derived # None THEN Val(derived) ELSE user_grade,
          notes |-> Append(notes, Note("ABI {} (>1.30): likely noncompressible -> prefer toe/TcPO2", <<Val(abi)>>))]
    ELSE IF derived = None
         THEN [ret |-> user_grade, notes |-> notes]
    ELSE [ret |-> Max(user_grade, Val(derived)), notes |-> notes]

refine_ischemia_grade(user_grade, abi, toe, tcpo2, notes) ==
    LET t == ToeBlock(toe, None, notes)
        c == TcBlock(tcpo2, t.derived, t.notes)
    IN  Combine(user_grade, abi, c.derived, c.notes)

----------------------------------------------------------------------------
\* wifI_stage_estimate

Max3(a, b, c) == Max(Max(a, b), c)

wifI_stage_estimate_WoundOnly(w, i, f, notes) ==
    LET mx == Max3(w, i, f)
        s  == w + i + f
    IN  IF w = 3 /\ (i >= 2 \/ f >= 2)
        THEN [ret |-> 4,
              notes |-> Append(notes, Note("High component grades (>=3 with another >=2) -> Stage 4", <<>>))]
        ELSE IF s >= 7
        THEN LET st == IF mx = 3 THEN 4 ELSE 3
             IN  [ret |-> st,
                  notes |-> Append(notes, Note("Sum {} with max {} -> Stage {}", <<s, mx, st>>))]
        ELSE IF 4 <= s /\ s <= 6
        THEN LET st == IF mx = 3 THEN 3 ELSE 2
             IN  [ret |-> st,
                  notes |-> Append(notes, Note("Sum {} with max {} -> Stage {}", <<s, mx, st>>))]
        ELSE [ret |-> 1, notes |-> Append(notes, Note("Sum {} -> Stage 1", <<s>>))]

wifI_stage_estimate_SumTo5(w, i, f, notes) ==
    LET mx == Max3(w, i, f)
        s  == w + i + f
    IN  IF (w = 3 /\ (i >= 2 \/ f >= 2)) \/ (i = 3 /\ (w >= 2 \/ f >= 2))
           \/ (f = 3 /\ (w >= 2 \/ i >= 2))
        THEN [ret |-> 4,
              notes |-> Append(notes, Note("High component grades (>=3 with another >=2) -> Stage 4", <<>>))]
        ELSE IF s >= 7
        THEN LET st == IF mx = 3 THEN 4 ELSE 3
             IN  [ret |-> st,
                  notes |-> Append(notes, Note("Sum {} with max {} -> Stage {}", <<s, mx, st>>))]
        ELSE IF 4 <= s /\ s <= 5
        THEN LET st == IF mx = 3 THEN 3 ELSE 2
             IN  [ret |-> st,
                  notes |-> Append(notes, Note("Sum {} with max {} -> Stage {}", <<s, mx, st>>))]
        ELSE [ret |-> 1, notes |-> Append(notes, Note("Sum {} -> Stage 1", <<s>>))]

wifI_stage_estimate(w, i, f, notes) ==
    LET mx == Max3(w, i, f)
        s  == w + i + f
    IN  IF (w = 3 /\ (i >= 2 \/ f >= 2)) \/ (i = 3 /\ (w >= 2 \/ f >= 2))
           \/ (f = 3 /\ (w >= 2 \/ i >= 2))
        THEN [ret |-> 4,
              notes |-> Append(notes, Note("High component grades (>=3 with another >=2) -> Stage 4", <<>>))]
        ELSE IF s >= 7
        THEN LET st == IF mx = 3 THEN 4 ELSE 3
             IN  [ret |-> st,
                  notes |-> Append(notes, Note("Sum {} with max {} -> Stage {}", <<s, mx, st>>))]
        ELSE IF 4 <= s /\ s <= 6
        THEN LET st == IF mx = 3 THEN 3 ELSE 2
             IN  [ret |-> st,
                  notes |-> Append(notes, Note("Sum {} with max {} -> Stage {}", <<s, mx, st>>))]
        ELSE [ret |-> 1, notes |-> Append(notes, Note("Sum {} -> Stage 1", <<s>>))]

----------------------------------------------------------------------------
\* idsa_pedis_with_biomarkers

\* `x is not None and x >= lo`
AtLeast(x, lo) == x # None /\ Val(x) >= lo

\* `x is not None and lo <= x < hi`
Within(x, lo, hi) == x # None /\ lo <= Val(x) /\ Val(x) < hi

\* lines 146-154: the flags of the High branch, in the order they are appended
high_flags(crp, esr, pct, lact) ==
    (IF AtLeast(crp, Dec(100, 0)) THEN <<Note("CRP {} >=100", <<Val(crp)>>)>> ELSE <<>>)
    \o (IF AtLeast(esr, Dec(70, 0)) THEN <<Note("ESR {} >=70", <<Val(esr)>>)>> ELSE <<>>)
    \o (IF Within(lact, Dec(2, 0), Dec(4, 0)) THEN <<Note("Lactate {} 2.0-3.9", <<Val(lact)>>)>> ELSE <<>>)
    \o (IF Within(pct, Dec(0, 50), Dec(2, 0)) THEN <<Note("PCT {} 0.5-1.99", <<Val(pct)>>)>> ELSE <<>>)

\* lines 162-164
mod_flags(crp) ==
    IF Within(crp, Dec(50, 0), Dec(100, 0)) THEN <<Note("CRP {} 50-99", <<Val(crp)>>)>> ELSE <<>>

idsa_pedis_with_biomarkers_NoEsr(crp, esr, pct, lact, notes) ==
    IF AtLeast(lact, Dec(4, 0)) \/ AtLeast(pct, Dec(2, 0))
    THEN [ret |-> [idsa_pedis_grade |-> "Severe", risk_level |-> "Critical"],
          notes |-> notes
             \o (IF AtLeast(lact, Dec(4, 0))
                 THEN <<Note("Lactate {} >=4.0 -> Severe infection", <<Val(lact)>>)>> ELSE <<>>)
             \o (IF AtLeast(pct, Dec(2, 0))
                 THEN <<Note("Procalcitonin {} >=2.0 -> Severe infection", <<Val(pct)>>)>> ELSE <<>>)]
    ELSE IF high_flags(crp, None, pct, lact) # <<>>
    THEN [ret |-> [idsa_pedis_grade |-> "Moderate", risk_level |-> "High"],
          notes |-> notes \o [k \in 1..Len(high_flags(crp, None, pct, lact)) |->
                        Note(high_flags(crp, None, pct, lact)[k].fmt \o " -> Moderate-Severe infection",
                             high_flags(crp, None, pct, lact)[k].args)]]
    ELSE IF mod_flags(crp) # <<>>
    THEN [ret |-> [idsa_pedis_grade |-> "Mild-Moderate", risk_level |-> "Moderate"],
          notes |-> notes \o [k \in 1..Len(mod_flags(crp)) |->
                        Note(mod_flags(crp)[k].fmt \o " -> Mild-Moderate infection",
                             mod_flags(crp)[k].args)]]
    ELSE [ret |-> [idsa_pedis_grade |-> "None-Mild", risk_level |-> "Low"],
          notes |-> Append(notes, Note("No systemic biomarker red flags -> Low infection severity", <<>>))]

idsa_pedis_with_biomarkers(crp, esr, pct, lact, notes) ==
    IF AtLeast(lact, Dec(4, 0)) \/ AtLeast(pct, Dec(2, 0))
    THEN [ret |-> [idsa_pedis_grade |-> "Severe", risk_level |-> "Critical"],
          notes |-> notes
             \o (IF AtLeast(lact, Dec(4, 0))
                 THEN <<Note("Lactate {} >=4.0 -> Severe infection", <<Val(lact)>>)>> ELSE <<>>)
             \o (IF AtLeast(pct, Dec(2, 0))
                 THEN <<Note("Procalcitonin {} >=2.0 -> Severe infection", <<Val(pct)>>)>> ELSE <<>>)]
    ELSE IF high_flags(crp, esr, pct, lact) # <<>>
    THEN [ret |-> [idsa_pedis_grade |-> "Moderate", risk_level |-> "High"],
          notes |-> notes \o [k \in 1..Len(high_flags(crp, esr, pct, lact)) |->
                        Note(high_flags(crp, esr, pct, lact)[k].fmt \o " -> Moderate-Severe infection",
                             high_flags(crp, esr, pct, lact)[k].args)]]
    ELSE IF mod_flags(crp) # <<>>
    THEN [ret |-> [idsa_pedis_grade |-> "Mild-Moderate", risk_level |-> "Moderate"],
          notes |-> notes \o [k \in 1..Len(mod_flags(crp)) |->
                        Note(mod_flags(crp)[k].fmt \o " -> Mild-Moderate infection",
                             mod_flags(crp)[k].args)]]
    ELSE [ret |-> [idsa_pedis_grade |-> "None-Mild", risk_level |-> "Low"],
          notes |-> Append(notes, Note("No systemic biomarker red flags -> Low infection severity", <<>>))]

----------------------------------------------------------------------------
\* plan_recommendations

\* lines 184-201: the infection-driven block
InfectionActions(inf_level) ==
    IF inf_level = "Critical"
    THEN <<"Admit now; start IV broad-spectrum antibiotics",
           "Urgent surgical source control if abscess/necrosis">>
    ELSE IF inf_level = "High"
    THEN <<"Strongly consider admission for IV antibiotics",
           "Imaging for osteomyelitis (MRI or bone biopsy if indicated)">>
    ELSE IF inf_level = "Moderate"
    THEN <<"Outpatient management reasonable; close follow-up 24-48h",
           "Consider targeted antibiotics per cultures, debridement if needed">>
    ELSE <<"Routine wound care and offloading; monitor">>

\* lines 203-207: the ischemia-driven block
IschemiaActions_GradeOnly(st, refined) ==
    IF refined = 3
    THEN <<"Vascular consult within 24-48 hours">>
    ELSE IF refined = 2
    THEN <<"Vascular referral; noninvasive testing as needed">>
    ELSE <<>>

IschemiaActions(st, refined) ==
    IF refined = 3 \/ st >= 3
    THEN <<"Vascular consult within 24-48 hours">>
    ELSE IF refined = 2
    THEN <<"Vascular referral; noninvasive testing as needed">>
    ELSE <<>>

plan_recommendations(st, inf_level, refined, hbA1c, flags) ==
    LET r == InfectionActions(inf_level) \o IschemiaActions(st, refined)
    IN  IF AtLeast(hbA1c, Dec(9, 0))
        THEN [ret   |-> Append(r, "Intensify glycemic control and nutrition optimization"),
              flags |-> Append(flags, Note("HbA1c {} >=9% -> slower healing expected", <<Val(hbA1c)>>))]
        ELSE [ret |-> r, flags |-> flags]

----------------------------------------------------------------------------
\* The merge of the infection risk level with the stage

\* evaluate_legacy, lines 237-240
merge_legacy_Stage2(level, st) ==
    IF level \in {"Low", "Moderate"} /\ st >= 2 THEN "High" ELSE level

merge_legacy(level, st) ==
    IF level \in {"Low", "Moderate"} /\ st >= 3 THEN "High" ELSE level

\* evaluate_v2, lines 282-286
merge_v2_Silent(level, st, notes) ==
    IF level \in {"Low", "Moderate"} /\ st >= 3
    THEN [overall |-> "High", notes |-> notes]
    ELSE [overall |-> level, notes |-> notes]

merge_v2(level, st, notes) ==
    IF level \in {"Low", "Moderate"} /\ st >= 3
    THEN [overall |-> "High",
          notes   |-> Append(notes, Note("WIfI Stage {} escalates overall risk -> High", <<st>>))]
    ELSE [overall |-> level, notes |-> notes]

\* evaluate_legacy, lines 242-250
summary(level) ==
    IF level = "Critical"
    THEN "Severe infection/systemic risk. Admit for IV antibiotics, urgent source control, and vascular consult."
    ELSE IF level = "High"
    THEN "Moderate-severe infection likely. Consider admission, imaging for osteomyelitis, and vascular evaluation."
    ELSE IF level = "Moderate"
    THEN "Mild-moderate infection. Outpatient care reasonable with close follow-up; consider targeted antibiotics."
    ELSE "Low infection severity. Routine care, offloading, and monitoring."

----------------------------------------------------------------------------
\* Inputs

ConventionalGrades == 0..3

Grades == (0 - Slack)..(3 + Slack)

PatientCase(w, i, f, abi, toe, tcpo2, crp, esr, pct, lact, hb, fru) ==
    [wound_grade |-> w, ischemia_grade |-> i, infection_grade |-> f,
     ABI |-> abi, Toe_pressure |-> toe, TcPO2 |-> tcpo2,
     CRP |-> crp, ESR |-> esr, Procalcitonin |-> pct, Lactate |-> lact,
     HbA1c |-> hb, Fructosamine |-> fru]

\* Requests of the endpoint-level specification
Cases ==
    { PatientCase(w, i, f, abi, toe, tcpo2, crp, None, None, lact, hb, None) :
        w \in Grades, i \in Grades, f \in Grades,
        abi \in {None, Some(Dec(1, 45))},
        toe \in {None, Some(Dec(25, 0)), Some(Dec(39, 50))},
        tcpo2 \in {None, Some(Dec(25, 0))},
        crp \in {None, Some(Dec(60, 0))},
        lact \in {None, Some(Dec(4, 50))},
        hb \in {None, Some(Dec(9, 50))} }

NoResult == [idsa_pedis_grade |-> "", risk_level |-> ""]

----------------------------------------------------------------------------
\* The endpoints, one action per step of the handler

\* No request is in progress
Init ==
    /\ pc = "idle"
    /\ endpoint = ""
    /\ case = PatientCase(0, 0, 0, None, None, None, None, None, None, None, None, None)
    /\ refined_I = 0
    /\ stage = 0
    /\ inf = NoResult
    /\ recs = <<>>
    /\ plan_flags = <<>>
    /\ rationale = <<>>
    /\ overall = ""
    /\ response = None

\* A request reaches /evaluate or /evaluate_v2; the handler's locals are fresh
Receive ==
    /\ pc = "idle"
    /\ \E e \in {"evaluate", "evaluate_v2"}, c \in Cases :
         /\ endpoint' = e
         /\ case' = c
    /\ pc' = "refine"
    /\ UNCHANGED <<refined_I, stage, inf, recs, plan_flags, rationale, overall, response>>

\* The response has been sent; the handler's locals are discarded
Discard ==
    /\ pc = "done"
    /\ pc' = "idle"
    /\ endpoint' = ""
    /\ case' = PatientCase(0, 0, 0, None, None, None, None, None, None, None, None, None)
    /\ refined_I' = 0
    /\ stage' = 0
    /\ inf' = NoResult
    /\ recs' = <<>>
    /\ plan_flags' = <<>>
    /\ rationale' = <<>>
    /\ overall' = ""
    /\ response' = None

Refine ==
    /\ pc = "refine"
    /\ LET r == refine_ischemia_grade(case.ischemia_grade, case.ABI,
                                      case.Toe_pressure, case.TcPO2, rationale)
       IN  /\ refined_I' = r.ret
           /\ rationale' = r.notes
    /\ pc' = "stage"
    /\ UNCHANGED <<endpoint, case, stage, inf, recs, plan_flags, overall, response>>

Stage ==
    /\ pc = "stage"
    /\ LET r == wifI_stage_estimate(case.wound_grade, refined_I,
                                    case.infection_grade, rationale)
       IN  /\ stage' = r.ret
           /\ rationale' = r.notes
    /\ pc' = "infection"
    /\ UNCHANGED <<endpoint, case, refined_I, inf, recs, plan_flags, overall, response>>

Infection ==
    /\ pc = "infection"
    /\ LET r == idsa_pedis_with_biomarkers(case.CRP, case.ESR, case.Procalcitonin,
                                           case.Lactate, rationale)
       IN  /\ inf' = r.ret
           /\ rationale' = r.notes
    /\ pc' = IF endpoint = "evaluate_v2" THEN "plan" ELSE "merge"
    /\ UNCHANGED <<endpoint, case, refined_I, stage, recs, plan_flags, overall, response>>

Plan ==
    /\ pc = "plan"
    /\ LET r == plan_recommendations(stage, inf.risk_level, refined_I, case.HbA1c, <<>>)
       IN  /\ recs' = r.ret
           /\ plan_flags' = r.flags
    /\ pc' = "merge"
    /\ UNCHANGED <<endpoint, case, refined_I, stage, inf, rationale, overall, response>>

MergeLegacy ==
    /\ pc = "merge"
    /\ endpoint = "evaluate"
    /\ overall' = merge_legacy(inf.risk_level, stage)
    /\ pc' = "return"
    /\ UNCHANGED <<endpoint, case, refined_I, stage, inf, recs, plan_flags, rationale, response>>

MergeV2 ==
    /\ pc = "merge"
    /\ endpoint = "evaluate_v2"
    /\ LET r == merge_v2(inf.risk_level, stage, rationale)
       IN  /\ overall' = r.overall
           /\ rationale' = r.notes
    /\ pc' = "return"
    /\ UNCHANGED <<endpoint, case, refined_I, stage, inf, recs, plan_flags, response>>

\* evaluate_legacy, lines 242-256
ReturnLegacy ==
    /\ pc = "return"
    /\ endpoint = "evaluate"
    /\ response' = Some([WIfI_stage |-> stage, AI_risk_level |-> overall,
                         AI_summary |-> summary(overall)])
    /\ pc' = "done"
    /\ UNCHANGED <<endpoint, case, refined_I, stage, inf, recs, plan_flags, rationale, overall>>

\* evaluate_v2, lines 288-307
ReturnV2 ==
    /\ pc = "return"
    /\ endpoint = "evaluate_v2"
    /\ response' = Some(
         [wound |-> [W |-> case.wound_grade, I |-> refined_I,
                     F |-> case.infection_grade, wIfI_stage |-> stage],
          perfusion |-> [ABI |-> safe(case.ABI), Toe_pressure |-> safe(case.Toe_pressure),
                         TcPO2 |-> safe(case.TcPO2)],
          infection |-> [CRP |-> safe(case.CRP), ESR |-> safe(case.ESR),
                         Procalcitonin |-> safe(case.Procalcitonin),
                         Lactate |-> safe(case.Lactate),
                         idsa_pedis_grade |-> inf.idsa_pedis_grade,
                         risk_level |-> inf.risk_level],
          metabolic |-> [HbA1c |-> safe(case.HbA1c), Fructosamine |-> safe(case.Fructosamine)],
          plan |-> [recommendations |-> recs, flags |-> plan_flags],
          rationale |-> rationale,
          version |-> "1.1.0"])
    /\ pc' = "done"
    /\ UNCHANGED <<endpoint, case, refined_I, stage, inf, recs, plan_flags, rationale, overall>>

Next ==
    \/ Receive
    \/ Refine
    \/ Stage
    \/ Infection
    \/ Plan
    \/ MergeLegacy
    \/ MergeV2
    \/ ReturnLegacy
    \/ ReturnV2
    \/ Discard

Spec == Init /\ [][Next]_vars

----------------------------------------------------------------------------
\* Unit-level specifications: the handler stands at the step that calls one
\* function, with that function's arguments drawn from bounded sets.

AbiVals == {None, Some(Dec(0, 90)), Some(Dec(1, 30)), Some(Dec(1, 31)), Some(Dec(1, 45))}

ToeVals == {None, Some(Dec(25, 0)), Some(Dec(29, 99)), Some(Dec(30, 0)), Some(Dec(35, 0)),
            Some(Dec(39, 0)), Some(Dec(39, 50)), Some(Dec(40, 0)), Some(Dec(55, 0))}

TcVals == {None, Some(Dec(15, 0)), Some(Dec(19, 99)), Some(Dec(20, 0)), Some(Dec(25, 0)),
           Some(Dec(29, 0)), Some(Dec(29, 50)), Some(Dec(30, 0)), Some(Dec(45, 0))}

CrpVals == {None, Some(Dec(10, 0)), Some(Dec(49, 99)), Some(Dec(50, 0)), Some(Dec(99, 99)),
            Some(Dec(100, 0))}

EsrVals == {None, Some(Dec(69, 99)), Some(Dec(70, 0))}

PctVals == {None, Some(Dec(0, 49)), Some(Dec(0, 50)), Some(Dec(1, 99)), Some(Dec(2, 0))}

LactVals == {None, Some(Dec(1, 99)), Some(Dec(2, 0)), Some(Dec(3, 99)), Some(Dec(4, 0))}

HbVals == {None, Some(Dec(8, 99)), Some(Dec(9, 0)), Some(Dec(9, 50))}

InfResults ==
    { [idsa_pedis_grade |-> "Severe", risk_level |-> "Critical"],
      [idsa_pedis_grade |-> "Moderate", risk_level |-> "High"],
      [idsa_pedis_grade |-> "Mild-Moderate", risk_level |-> "Moderate"],
      [idsa_pedis_grade |-> "None-Mild", risk_level |-> "Low"] }

\* The locals a handler has not assigned yet
Unassigned ==
    /\ endpoint = "evaluate_v2"
    /\ recs = <<>>
    /\ plan_flags = <<>>
    /\ overall = ""
    /\ response = None

InitRefine ==
    /\ pc = "refine"
    /\ case \in { PatientCase(0, i, 0, abi, toe, tcpo2, None, None, None, None, None, None) :
                    i \in Grades, abi \in AbiVals, toe \in ToeVals, tcpo2 \in TcVals }
    /\ refined_I = 0
    /\ stage = 0
    /\ inf = NoResult
    /\ rationale = <<>>
    /\ Unassigned

SpecRefine == InitRefine /\ [][Refine]_vars

InitStage ==
    /\ pc = "stage"
    /\ case \in { PatientCase(w, 0, f, None, None, None, None, None, None, None, None, None) :
                    w \in Grades, f \in Grades }
    /\ refined_I \in Grades
    /\ stage = 0
    /\ inf = NoResult
    /\ rationale = <<>>
    /\ Unassigned

SpecStage == InitStage /\ [][Stage]_vars

InitInfection ==
    /\ pc = "infection"
    /\ case \in { PatientCase(0, 0, 0, None, None, None, crp, esr, pct, lact, None, None) :
                    crp \in CrpVals, esr \in EsrVals, pct \in PctVals, lact \in LactVals }
    /\ refined_I = 0
    /\ stage = 1
    /\ inf = NoResult
    /\ rationale = <<>>
    /\ Unassigned

SpecInfection == InitInfection /\ [][Infection]_vars

InitPlan ==
    /\ pc = "plan"
    /\ case \in { PatientCase(0, 0, 0, None, None, None, None, None, None, None, hb, None) :
                    hb \in HbVals }
    /\ refined_I \in Grades
    /\ stage \in 1..4
    /\ inf \in InfResults
    /\ rationale = <<>>
    /\ Unassigned

SpecPlan == InitPlan /\ [][Plan]_vars

----------------------------------------------------------------------------
\* Properties

\* The ordering Low < Moderate < High < Critical
Rank(level) ==
    CASE level = "Low" -> 0
      [] level = "Moderate" -> 1
      [] level = "High" -> 2
      [] level = "Critical" -> 3

\* The label-valued fields of an evaluate_v2 record
ResponseLabels(r) ==
    {r.infection.idsa_pedis_grade, r.infection.risk_level, r.version}

Escalates == inf.risk_level \in {"Low", "Moderate"} /\ stage >= 3

\* C1: the record evaluate_v2 returns has a field holding the overall risk
\* level, the infection risk level raised to "High" when it is "Low" or
\* "Moderate" and the stage is >= 3.
C1_OverallExposed ==
    (pc = "done" /\ endpoint = "evaluate_v2") =>
        \E label \in ResponseLabels(Val(response)) :
            label = (IF Escalates THEN "High" ELSE inf.risk_level)

\* C2: after the merge step of either endpoint the overall risk level is never
\* below the infection risk level, and it differs from it exactly when that
\* level is "Low" or "Moderate" and the stage is >= 3, and then it is "High".
C2_MergeNeverLowers ==
    pc \in {"return", "done"} =>
        /\ Rank(overall) >= Rank(inf.risk_level)
        /\ (overall # inf.risk_level) <=> Escalates
        /\ (overall # inf.risk_level) => overall = "High"

C2_Witness ==
    /\ pc = "done"
    /\ endpoint = "evaluate"
    /\ inf.risk_level = "Moderate"
    /\ stage >= 3
    /\ Val(response).AI_risk_level = "High"

\* C3: with the user grade (0..3), the ABI and the other measurement fixed, a
\* higher toe pressure never yields a higher refined grade, and likewise a
\* higher TcPO2, over all values including those between 39 and 40 (29 and 30).
C3_RefineMonotonic ==
    (pc = "stage" /\ case.ischemia_grade \in ConventionalGrades) =>
        /\ \A t \in ToeVals \ {None} :
             (case.Toe_pressure # None /\ Val(case.Toe_pressure) <= Val(t)) =>
                 refine_ischemia_grade(case.ischemia_grade, case.ABI, t,
                                       case.TcPO2, <<>>).ret <= refined_I
        /\ \A t \in TcVals \ {None} :
             (case.TcPO2 # None /\ Val(case.TcPO2) <= Val(t)) =>
                 refine_ischemia_grade(case.ischemia_grade, case.ABI, case.Toe_pressure,
                                       t, <<>>).ret <= refined_I

\* The candidate grade each measurement yields when it is the only one
ToeCandidate(toe) == ToeBlock(toe, None, <<>>).derived

TcCandidate(tcpo2) == TcBlock(tcpo2, None, <<>>).derived

\* The worse of the candidates that exist
DerivedGrade(toe, tcpo2) ==
    LET a == ToeCandidate(toe)
        b == TcCandidate(tcpo2)
    IN  IF a = None THEN b
        ELSE IF b = None THEN a
        ELSE Some(Max(Val(a), Val(b)))

C5_InfectionTable ==
    pc = "plan" =>
        LET has(x) == x # None
            crp  == case.CRP
            esr  == case.ESR
            pct  == case.Procalcitonin
            lact == case.Lactate
            row1 == (has(lact) /\ Val(lact) >= Dec(4, 0)) \/ (has(pct) /\ Val(pct) >= Dec(2, 0))
            row2 == \/ has(crp) /\ Val(crp) >= Dec(100, 0)
                    \/ has(esr) /\ Val(esr) >= Dec(70, 0)
                    \/ has(lact) /\ Dec(2, 0) <= Val(lact) /\ Val(lact) < Dec(4, 0)
                    \/ has(pct) /\ Dec(0, 50) <= Val(pct) /\ Val(pct) < Dec(2, 0)
            row3 == has(crp) /\ Dec(50, 0) <= Val(crp) /\ Val(crp) < Dec(100, 0)
        IN  /\ inf = (IF row1 THEN [idsa_pedis_grade |-> "Severe", risk_level |-> "Critical"]
                      ELSE IF row2 THEN [idsa_pedis_grade |-> "Moderate", risk_level |-> "High"]
                      ELSE IF row3 THEN [idsa_pedis_grade |-> "Mild-Moderate", risk_level |-> "Moderate"]
                      ELSE [idsa_pedis_grade |-> "None-Mild", risk_level |-> "Low"])
            /\ (~has(crp) /\ ~has(esr) /\ ~has(pct) /\ ~has(lact)) =>
                   /\ inf = [idsa_pedis_grade |-> "None-Mild", risk_level |-> "Low"]
                   /\ Len(rationale) = 1
                   /\ rationale[1].fmt = "No systemic biomarker red flags -> Low infection severity"

C5_Witness ==
    /\ pc = "plan"
    /\ case.CRP = None /\ case.ESR = None
    /\ case.Procalcitonin = None /\ case.Lactate = None
    /\ inf.risk_level = "Low"
    /\ Len(rationale) = 1

\* C6: the recommendation list is, in this order, exactly one infection block
\* chosen by risk level; then the vascular consult iff refined ischemia = 3 or
\* stage >= 3, or else the vascular referral iff refined ischemia = 2; then the
\* glycemic recommendation iff HbA1c is present and >= 9.0, in which case
\* exactly one flag is appended to the flags list, which is otherwise unchanged.
C6_PlanComposition ==
    pc = "merge" =>
        LET level == inf.risk_level
            block == IF level = "Critical"
                     THEN <<"Admit now; start IV broad-spectrum antibiotics",
                            "Urgent surgical source control if abscess/necrosis">>
                     ELSE IF level = "High"
                     THEN <<"Strongly consider admission for IV antibiotics",
                            "Imaging for osteomyelitis (MRI or bone biopsy if indicated)">>
                     ELSE IF level = "Moderate"
                     THEN <<"Outpatient management reasonable; close follow-up 24-48h",
                            "Consider targeted antibiotics per cultures, debridement if needed">>
                     ELSE <<"Routine wound care and offloading; monitor">>
            consult  == refined_I = 3 \/ stage >= 3
            referral == ~consult /\ refined_I = 2
            glycemic == case.HbA1c # None /\ Val(case.HbA1c) >= Dec(9, 0)
            vascular == IF consult THEN <<"Vascular consult within 24-48 hours">>
                        ELSE IF referral THEN <<"Vascular referral; noninvasive testing as needed">>
                        ELSE <<>>
            metabolic == IF glycemic
                         THEN <<"Intensify glycemic control and nutrition optimization">>
                         ELSE <<>>
            before == <<Note("earlier flag", <<>>)>>
            after  == plan_recommendations(stage, level, refined_I, case.HbA1c, before).flags
        IN  /\ recs = block \o vascular \o metabolic
            /\ Len(plan_flags) = (IF glycemic THEN 1 ELSE 0)
            /\ IF glycemic
               THEN Len(after) = 2 /\ after[1] = before[1]
               ELSE after = before

C6_Witness ==
    /\ pc = "merge"
    /\ inf.risk_level = "Critical"
    /\ stage = 4
    /\ refined_I = 2
    /\ case.HbA1c = Some(Dec(9, 0))
    /\ Len(recs) = 4
    /\ Len(plan_flags) = 1

\* The example input of the specification's testable properties
ExampleCase ==
    PatientCase(3, 1, 1, Some(Dec(1, 45)), Some(Dec(25, 0)), None,
                None, None, None, None, None, None)

\* C7 as stated: the example input yields refined ischemia grade 2 and stage 4.
C7_ExampleAsStated ==
    (pc = "done" /\ case = ExampleCase) => (refined_I = 2 /\ stage = 4)

\* C7 amended: the example input yields refined ischemia grade 3 (toe pressure
\* 25 is below 30, preferred over the user grade because ABI > 1.30) and, from
\* W=3, I=3, F=1, stage 4.
C7_Example ==
    (pc = "done" /\ case = ExampleCase) =>
        /\ refined_I = 3
        /\ stage = 4
        /\ endpoint = "evaluate_v2" =>
               (Val(response).wound.I = 3 /\ Val(response).wound.wIfI_stage = 4)
        /\ endpoint = "evaluate" => Val(response).WIfI_stage = 4

C7_Witness ==
    /\ pc = "done"
    /\ case = ExampleCase
    /\ endpoint = "evaluate_v2"
    /\ Val(response).wound.I = 3

\* The step of the handler that appends an entry: 1 ischemia refinement,
\* 2 stage estimation, 3 infection grading, 4 the merge
Phase(n) ==
    IF n.fmt \in {"High component grades (>=3 with another >=2) -> Stage 4",
                  "Sum {} with max {} -> Stage {}", "Sum {} -> Stage 1"} THEN 2
    ELSE IF n.fmt \in {"Lactate {} >=4.0 -> Severe infection",
                       "Procalcitonin {} >=2.0 -> Severe infection",
                       "CRP {} >=100 -> Moderate-Severe infection",
                       "ESR {} >=70 -> Moderate-Severe infection",
                       "Lactate {} 2.0-3.9 -> Moderate-Severe infection",
                       "PCT {} 0.5-1.99 -> Moderate-Severe infection",
                       "CRP {} 50-99 -> Mild-Moderate infection",
                       "No systemic biomarker red flags -> Low infection severity"} THEN 3
    ELSE IF n.fmt = "WIfI Stage {} escalates overall risk -> High" THEN 4
    ELSE 1

\* The stage a stage entry names
StageNamed(n) ==
    IF n.fmt = "High component grades (>=3 with another >=2) -> Stage 4" THEN 4
    ELSE IF n.fmt = "Sum {} with max {} -> Stage {}" THEN n.args[3]
    ELSE 1

\* The risk level an infection entry justifies
LevelJustified(n) ==
    IF n.fmt \in {"Lactate {} >=4.0 -> Severe infection",
                  "Procalcitonin {} >=2.0 -> Severe infection"} THEN "Critical"
    ELSE IF n.fmt = "CRP {} 50-99 -> Mild-Moderate infection" THEN "Moderate"
    ELSE IF n.fmt = "No systemic biomarker red flags -> Low infection severity" THEN "Low"
    ELSE "High"

IsPrefix(a, b) == Len(a) <= Len(b) /\ SubSeq(b, 1, Len(a)) = a

Traceable ==
    (pc \in {"return", "done"} /\ endpoint = "evaluate_v2") =>
        LET idx(ph) == {k \in 1..Len(rationale) : Phase(rationale[k]) = ph}
        IN  /\ Cardinality(idx(2)) = 1
            /\ \A k \in idx(2) : StageNamed(rationale[k]) = stage
            /\ idx(3) # {}
            /\ \A k \in idx(3) : LevelJustified(rationale[k]) = inf.risk_level
            /\ (inf.risk_level = "Low") =>
                   \E k \in idx(3) :
                       rationale[k].fmt = "No systemic biomarker red flags -> Low infection severity"
            /\ (idx(4) # {}) <=> (Rank(overall) > Rank(inf.risk_level))
            /\ Cardinality(idx(4)) <= 1
            /\ \A j, k \in 1..Len(rationale) :
                   j < k => Phase(rationale[j]) <= Phase(rationale[k])
            /\ pc = "done" => Val(response).rationale = rationale

AppendOnly == (pc \notin {"idle", "done"}) => IsPrefix(rationale, rationale')

\* C8: in every evaluate_v2 result the log holds exactly one stage entry, which
\* names the returned stage, at least one infection entry justifying the
\* returned infection risk level (the 'no red flags' entry on the Low path), and
\* an escalation entry iff the overall risk was raised above the infection risk
\* level; the entries stand in the order ischemia, stage, infection, escalation;
\* and no step of the handler removes or reorders an entry.
C8_RationaleTraceable == []Traceable /\ [][AppendOnly]_vars

C8_Witness ==
    /\ pc = "done"
    /\ endpoint = "evaluate_v2"
    /\ overall = "High"
    /\ inf.risk_level = "Low"
    /\ Len(Val(response).rationale) = 6

\* C9: the stage is the same for every permutation of the three grades.
C9_StageSymmetric ==
    pc = "infection" =>
        LET w == case.wound_grade
            i == refined_I
            f == case.infection_grade
        IN  \A p \in {<<w, f, i>>, <<i, w, f>>, <<i, f, w>>, <<f, w, i>>, <<f, i, w>>} :
                wifI_stage_estimate(p[1], p[2], p[3], <<>>).ret = stage

C9_Witness ==
    /\ pc = "infection"
    /\ case.wound_grade = 2
    /\ refined_I = 0
    /\ case.infection_grade = 3
    /\ stage = 4

\* C10: for grades in 0..3, raising any single grade within 0..3 never lowers
\* the stage, and the stage is in {1,2,3,4}.
C10_StageEscalates ==
    (/\ pc = "infection"
     /\ case.wound_grade \in ConventionalGrades
     /\ refined_I \in ConventionalGrades
     /\ case.infection_grade \in ConventionalGrades) =>
        LET w == case.wound_grade
            i == refined_I
            f == case.infection_grade
        IN  /\ stage \in {1, 2, 3, 4}
            /\ \A g \in ConventionalGrades :
                 /\ g > w => wifI_stage_estimate(g, i, f, <<>>).ret >= stage
                 /\ g > i => wifI_stage_estimate(w, g, f, <<>>).ret >= stage
                 /\ g > f => wifI_stage_estimate(w, i, g, <<>>).ret >= stage

C10_Witness ==
    /\ pc = "infection"
    /\ case.wound_grade = 2
    /\ refined_I = 2
    /\ case.infection_grade = 1
    /\ stage = 2
    /\ wifI_stage_estimate(2, 2, 2, <<>>).ret = 2

=============================================================================
